---- MODULE Spec2Model ----
(***************************************************************************)
(* Event reconciliation and synchronisation pipeline of the economic       *)
(* calendar: the events table written through DatabaseService, the sync    *)
(* loops of main.py and api.py that push unsynced events to the external   *)
(* calendar, and the DatabaseConnection scope of utils/db_utils.py.        *)
(*                                                                         *)
(* Specifications:                                                         *)
(*   SpecStore  the DatabaseService operations called in any order         *)
(*   Spec       ingestion plus two sync runs that may overlap in time      *)
(*   SpecSeq    ingestion plus sync runs that never overlap                *)
(*   SpecCrash  SpecSeq where the process may die in the middle of a run   *)
(*   SpecConn   one DatabaseConnection scope, step by step                 *)
(*   SpecRetry  sync runs without end, the faults confined to the first     *)
(*   SpecNorm   EventProcessor.clean_and_transform on raw batches           *)
(*   SpecEntry  the pipeline entry points, run one at a time                *)
(*   SpecCal    CalendarService.create_event called directly                *)
(*   SpecReingest  SpecStore with events scraped again with other values    *)
(*   SpecAtomic the insert of a batch with its transaction                  *)
(***************************************************************************)
EXTENDS Integers, Sequences, FiniteSets, Bags, TLC

VARIABLES
    tableExists,   \* the events table has been created
    store,         \* the events table: a bag of rows
    last,          \* the last call and what it returned; SpecEntry: the frame of the run
    created,       \* external calendar: per natural key, how many events were created
    unrecorded,    \* per natural key, creates whose identifier never reached the store
    runs,          \* sync runs started so far
    pc,            \* per sync run: its position
    batch,         \* per sync run: the unsynced events it read (unsynced_events)
    outcome,       \* per sync run: what happened to each event handled so far
    gcal,          \* per sync run: gcal_event_id returned by the last create_event
    synced_count,  \* per sync run: synced_count
    sync_success,  \* per sync run: sync_success (main.py)
    max_retries,   \* DatabaseConnection.max_retries
    wait_seconds,  \* DatabaseConnection.wait_seconds
    cpc,           \* the scope's position
    attempt,       \* the loop variable of __enter__
    log,           \* what each psycopg2.connect call did, in order
    slept,         \* the argument of each time.sleep call, in order
    conn,          \* self.conn: "None", "open" or "closed"
    body_exc,      \* the body of the with statement raised
    commits,       \* conn.commit() calls made by __exit__
    rollbacks,     \* conn.rollback() calls made by __exit__
    closes,        \* conn.close() calls
    raised         \* the exception that leaves the scope, NoException if none

storeVars == <<tableExists, store, last>>
syncVars == <<created, unrecorded, runs, pc, batch, outcome, gcal, synced_count, sync_success>>
connVars == <<max_retries, wait_seconds, cpc, attempt, log, slept, conn, body_exc,
              commits, rollbacks, closes, raised>>
vars == <<storeVars, syncVars, connVars>>

(***************************************************************************)
(* Bounds of the model.                                                    *)
(***************************************************************************)
MaxBatch == 2      \* events per batch of a direct insert call
MaxScrape == 1     \* events per scrape of a pipeline run
MaxRuns == 2       \* sync runs started in one behaviour
MaxRetries == 3    \* largest max_retries a scope is built with
MaxWait == 2       \* largest wait_seconds a scope is built with
MaxFaulty == 1     \* sync runs of SpecRetry in which a call may fail
MaxRaw == 3        \* raw tuples per batch given to the normalizer

(***************************************************************************)
(* Values.                                                                 *)
(***************************************************************************)
\* SQL NULL / Python None for gcal_event_id
NULL == <<>>

HIGH_IMPORTANCE_LEVEL == 3

DB_MAX_RETRIES == 5

DB_WAIT_SECONDS == 2

\* summaries are sequences of words, so that LOWER and LIKE '%..%' compute
JoblessClaims == <<"Initial", "Jobless", "Claims">>
Payrolls == <<"Non", "Farm", "Payrolls">>
RateDecision == <<"Fed", "Interest", "Rate", "Decision">>
RetailSales == <<"Retail", "Sales", "MoM">>
Permits == <<"Building", "Permits">>

Event(dt, s, c, l) == [event_datetime |-> dt, summary |-> s, country |-> c, level |-> l]

\* the processed events a scrape can deliver (rows of processed_events_df)
EventPool ==
    { Event(2, Payrolls, "US", 3),
      Event(2, RateDecision, "US", 3),
      Event(3, RetailSales, "US", 3),
      Event(2, JoblessClaims, "US", 2),
      Event(2, Permits, "US", 1) }

\* the events the direct calls of SpecStore insert
StorePool == {e \in EventPool : e.summary \in {RetailSales, JoblessClaims, Permits}}

\* the events the pipeline runs scrape
SyncPool == {e \in EventPool : e.summary # Permits}

Key(r) == <<r.event_datetime, r.summary>>

Keys == {Key(e) : e \in EventPool}

\* a natural key that no scraped event has
MissingKey == <<4, Permits>>

SeqsUpTo(S, n) == UNION {[1..k -> S] : k \in 0..n}

Batches == SeqsUpTo(StorePool, MaxBatch)

Scrapes == SeqsUpTo(SyncPool, MaxScrape)

\* identifier the external calendar returns for the n-th event created for key k
NewId(k, n) == <<k[1], k[2], n>>

\* identifiers a direct caller of mark_event_as_synced passes
CallerIds == {<<0, <<"manual">>, 1>>, <<0, <<"manual">>, 2>>}

(***************************************************************************)
(* The events table.                                                       *)
(***************************************************************************)
RECURSIVE SumCopies(_, _)
SumCopies(rows, B) ==
    IF rows = {} THEN 0
    ELSE LET r == CHOOSE x \in rows : TRUE
         IN CopiesIn(r, B) + SumCopies(rows \ {r}, B)

\* column defaults of CREATE TABLE: gcal_event_id NULL, is_synced FALSE
NewRow(e) ==
    [event_datetime |-> e.event_datetime, summary |-> e.summary,
     country |-> e.country, level |-> e.level,
     gcal_event_id |-> NULL, is_synced |-> FALSE]

\* variant: the conflict target never matches
ConflictsNever(s, e) == FALSE

\* ON CONFLICT (event_datetime, summary): the UNIQUE constraint finds a row
Conflicts(s, e) == \E r \in BagToSet(s) : Key(r) = Key(e)

\* variant: a plain INSERT, without the ON CONFLICT clause
InsertRowAlways(s, e) == s (+) SetToBag({NewRow(e)})

\* variant: the conflicting row is replaced by the incoming one
InsertRowReplace(s, e) ==
    LET kept == {r \in BagToSet(s) : Key(r) # Key(e)}
    IN [r \in kept |-> s[r]] (+) SetToBag({NewRow(e)})

\* INSERT ... ON CONFLICT (event_datetime, summary) DO NOTHING, one row
InsertRow(s, e) == IF Conflicts(s, e) THEN s ELSE s (+) SetToBag({NewRow(e)})

\* cursor.executemany(insert_sql, event_records): one INSERT per record, in order
RECURSIVE ExecuteMany(_, _)
ExecuteMany(s, events) ==
    IF events = <<>> THEN s
    ELSE ExecuteMany(InsertRow(s, Head(events)), Tail(events))

\* variant: no early return for an empty frame
InsertResultNoEarlyReturn(tbl, s, events, dbok) ==
    IF ~dbok \/ ~tbl THEN [store |-> s, ret |-> FALSE, rows |-> 0]
    ELSE LET t == ExecuteMany(s, events)
         IN [store |-> t, ret |-> TRUE, rows |-> BagCardinality(t) - BagCardinality(s)]

\* insert_events_from_dataframe: the store after the call, the value returned and
\* rows_inserted; dbok is whether the connection scope and its statements succeed
InsertResult(tbl, s, events, dbok) ==
    IF events = <<>> THEN [store |-> s, ret |-> TRUE, rows |-> 0]
    ELSE IF ~dbok \/ ~tbl THEN [store |-> s, ret |-> FALSE, rows |-> 0]
    ELSE LET t == ExecuteMany(s, events)
         IN [store |-> t, ret |-> TRUE, rows |-> BagCardinality(t) - BagCardinality(s)]

\* variant: the UPDATE also resets the level column
SetSyncedAndLevel(r, id) == [r EXCEPT !.gcal_event_id = id, !.is_synced = TRUE, !.level = 0]

\* variant: the UPDATE leaves the row as it was
SetSyncedNot(r, id) == r

\* variant: the UPDATE sets the identifier and leaves is_synced as it was
SetSyncedIdOnly(r, id) == [r EXCEPT !.gcal_event_id = id]

\* SET gcal_event_id = %s, is_synced = TRUE
SetSynced(r, id) == [r EXCEPT !.gcal_event_id = id, !.is_synced = TRUE]

\* variant: an UPDATE without its WHERE clause
MatchesKeyAny(r, k) == TRUE

\* WHERE event_datetime = %s AND summary = %s
MatchesKey(r, k) == Key(r) = k

\* variant: DELETE FROM events WHERE <key>
UpdateSyncedDeletes(s, k, id) ==
    [r \in {x \in BagToSet(s) : ~MatchesKey(x, k)} |-> s[r]]

\* UPDATE events SET gcal_event_id = %s, is_synced = TRUE WHERE <key>
UpdateSynced(s, k, id) ==
    LET rows == BagToSet(s)
        img(r) == IF MatchesKey(r, k) THEN SetSynced(r, id) ELSE r
    IN [t \in {img(r) : r \in rows} |-> SumCopies({r \in rows : img(r) = t}, s)]

\* variant: the UPDATE always reports one row
RowsUpdatedOne(s, k) == 1

\* cursor.rowcount of the UPDATE
RowsUpdated(s, k) == SumCopies({r \in BagToSet(s) : MatchesKey(r, k)}, s)

\* mark_event_as_synced: the store after the call and the value returned
MarkResult(tbl, s, k, id, dbok) ==
    IF ~dbok \/ ~tbl THEN [store |-> s, ret |-> FALSE]
    ELSE [store |-> UpdateSynced(s, k, id), ret |-> RowsUpdated(s, k) > 0]

\* variant: the WHERE clause without the two sync-marker tests
SelectsSyncedToo(r, min_level) == r.level >= min_level

\* WHERE gcal_event_id IS NULL AND is_synced = FALSE AND level >= %s
Selects(r, min_level) ==
    /\ r.gcal_event_id = NULL
    /\ r.is_synced = FALSE
    /\ r.level >= min_level

\* SELECT id, event_datetime, summary, country, level
Project(r) == Event(r.event_datetime, r.summary, r.country, r.level)

\* the rows of the table that satisfy the WHERE clause
Selected(s, min_level) ==
    [r \in {x \in BagToSet(s) : Selects(x, min_level)} |-> CopiesIn(r, s)]

\* variant: the query without its ORDER BY clause
OrderedAny(B) ==
    LET S == {Project(r) : r \in BagToSet(B)}
    IN {q \in [1..Cardinality(S) -> S] : \A i, j \in DOMAIN q : i # j => q[i] # q[j]}

\* ORDER BY event_datetime ASC: every order of the selected rows that ascends
RECURSIVE Ordered(_)
Ordered(B) ==
    IF BagToSet(B) = {} THEN {<<>>}
    ELSE LET firsts == {r \in BagToSet(B) :
                          \A x \in BagToSet(B) : r.event_datetime <= x.event_datetime}
         IN UNION {{<<Project(r)>> \o q : q \in Ordered(B (-) SetToBag({r}))} : r \in firsts}

\* variant: a failed read answers with the rows of an earlier read
UnsyncedResultsStale(tbl, s, min_level, dbok) == Ordered(Selected(s, min_level))

\* get_unsynced_events: the data frames the call can return
UnsyncedResults(tbl, s, min_level, dbok) ==
    IF ~dbok \/ ~tbl THEN {<<>>}
    ELSE Ordered(Selected(s, min_level))

\* COUNT(CASE WHEN is_synced = TRUE THEN 1 END)
SyncedEvents(s) == SumCopies({r \in BagToSet(s) : r.is_synced = TRUE}, s)

\* COUNT(CASE WHEN level >= 3 THEN 1 END)
HighImportanceEvents(s) == SumCopies({r \in BagToSet(s) : r.level >= 3}, s)

\* MIN(event_datetime) and MAX(event_datetime); NULL on an empty table
MinDatetime(s) ==
    IF s = EmptyBag THEN NULL
    ELSE CHOOSE d \in {r.event_datetime : r \in BagToSet(s)} :
            \A r \in BagToSet(s) : d <= r.event_datetime

MaxDatetime(s) ==
    IF s = EmptyBag THEN NULL
    ELSE CHOOSE d \in {r.event_datetime : r \in BagToSet(s)} :
            \A r \in BagToSet(s) : d >= r.event_datetime

\* the dict {} returned on failure
EmptyDict == [x \in {} |-> 0]

\* get_event_statistics: the dict returned
StatisticsResult(tbl, s, dbok) ==
    IF ~dbok \/ ~tbl THEN EmptyDict
    ELSE LET result == <<BagCardinality(s), SyncedEvents(s),
                         HighImportanceEvents(s), MinDatetime(s), MaxDatetime(s)>>
         IN [total_events |-> result[1],
             synced_events |-> result[2],
             unsynced_events |-> result[1] - result[2],
             high_importance_events |-> result[3],
             earliest_event |-> result[4],
             latest_event |-> result[5]]

(***************************************************************************)
(* The legacy selection of utils/db_utils.py: the fixed high-value         *)
(* indicator names, matched case-insensitively as substrings.              *)
(***************************************************************************)
LowerWord ==
    [w \in {"Initial", "Jobless", "Claims", "Non", "Farm", "Payrolls", "Fed",
            "Interest", "Rate", "Decision", "Retail", "Sales", "MoM", "Building",
            "Permits", "GDP", "Growth", "Core", "PCE", "Price", "Index"} |->
        CASE w = "Initial" -> "initial" [] w = "Jobless" -> "jobless"
          [] w = "Claims" -> "claims" [] w = "Non" -> "non" [] w = "Farm" -> "farm"
          [] w = "Payrolls" -> "payrolls" [] w = "Fed" -> "fed"
          [] w = "Interest" -> "interest" [] w = "Rate" -> "rate"
          [] w = "Decision" -> "decision" [] w = "Retail" -> "retail"
          [] w = "Sales" -> "sales" [] w = "MoM" -> "mom"
          [] w = "Building" -> "building" [] w = "Permits" -> "permits"
          [] w = "GDP" -> "gdp" [] w = "Growth" -> "growth" [] w = "Core" -> "core"
          [] w = "PCE" -> "pce" [] w = "Price" -> "price" [] w = "Index" -> "index"]

\* LOWER(summary)
Lower(s) == [i \in DOMAIN s |-> LowerWord[s[i]]]

\* s LIKE '%pat%'
Like(s, pat) ==
    \E i \in 0..(Len(s) - Len(pat)) : \A j \in 1..Len(pat) : s[i + j] = pat[j]

HighValueIndicators ==
    { <<"initial", "jobless", "claims">>,
      <<"gdp", "growth", "rate">>,
      <<"core", "pce", "price", "index", "mom">> }

MatchesIndicator(s) == \E pat \in HighValueIndicators : Like(Lower(s), pat)

(***************************************************************************)
(* The DatabaseService operations as steps on the table.                   *)
(***************************************************************************)
NoCall == [op |-> "none"]

\* variant: DROP TABLE and CREATE TABLE instead of CREATE TABLE IF NOT EXISTS
EnsureTableRecreate(dbok) ==
    /\ tableExists' = (tableExists \/ dbok)
    /\ store' = IF dbok THEN EmptyBag ELSE store
    /\ UNCHANGED <<syncVars, connVars>>

\* ensure_events_table_exists: CREATE TABLE IF NOT EXISTS
EnsureTable(dbok) ==
    /\ tableExists' = (tableExists \/ dbok)
    /\ UNCHANGED <<store, syncVars, connVars>>

\* insert_events_from_dataframe(events_df)
Insert(events, dbok) ==
    /\ store' = InsertResult(tableExists, store, events, dbok).store
    /\ UNCHANGED <<tableExists, syncVars, connVars>>

\* mark_event_as_synced(event_datetime, summary, gcal_event_id)
Mark(k, id, dbok) ==
    /\ store' = MarkResult(tableExists, store, k, id, dbok).store
    /\ UNCHANGED <<tableExists, syncVars, connVars>>

(***************************************************************************)
(* SpecStore: the operations called directly, in any order; last records   *)
(* the call and what it returned.                                          *)
(***************************************************************************)
EnsureSchema(dbok) ==
    /\ EnsureTable(dbok)
    /\ last' = [op |-> "ensure", ret |-> dbok]

InsertEvents(events, dbok) ==
    LET res == InsertResult(tableExists, store, events, dbok)
    IN /\ Insert(events, dbok)
       /\ last' = [op |-> "insert", events |-> events, dbok |-> dbok,
                   ret |-> res.ret, rows |-> res.rows]

\* get_unsynced_events(min_importance_level)
GetUnsynced(min_level, dbok) ==
    /\ \E df \in UnsyncedResults(tableExists, store, min_level, dbok) :
          last' = [op |-> "select", min_level |-> min_level, dbok |-> dbok, ret |-> df]
    /\ UNCHANGED <<tableExists, store, syncVars, connVars>>

\* get_event_statistics()
GetStatistics(dbok) ==
    /\ last' = [op |-> "stats", dbok |-> dbok,
                ret |-> StatisticsResult(tableExists, store, dbok)]
    /\ UNCHANGED <<tableExists, store, syncVars, connVars>>

MarkSynced(k, id, dbok) ==
    /\ Mark(k, id, dbok)
    /\ last' = [op |-> "mark", key |-> k, id |-> id, dbok |-> dbok,
                ret |-> MarkResult(tableExists, store, k, id, dbok).ret]

Runners == {"main", "api"}

StoreInit ==
    /\ tableExists = FALSE
    /\ store = EmptyBag
    /\ last = NoCall

SyncIdle ==
    /\ created = [k \in Keys |-> 0]
    /\ unrecorded = [k \in Keys |-> 0]
    /\ runs = 0
    /\ pc = [r \in Runners |-> "idle"]
    /\ batch = [r \in Runners |-> <<>>]
    /\ outcome = [r \in Runners |-> <<>>]
    /\ gcal = [r \in Runners |-> NULL]
    /\ synced_count = [r \in Runners |-> 0]
    /\ sync_success = [r \in Runners |-> TRUE]

NoException == <<"none">>

\* no scope is open
ConnIdle ==
    /\ max_retries = DB_MAX_RETRIES
    /\ wait_seconds = DB_WAIT_SECONDS
    /\ cpc = "none"
    /\ attempt = 1
    /\ log = <<>>
    /\ slept = <<>>
    /\ conn = "None"
    /\ body_exc = FALSE
    /\ commits = 0
    /\ rollbacks = 0
    /\ closes = 0
    /\ raised = NoException

Init == StoreInit /\ SyncIdle /\ ConnIdle

NextStore ==
    \/ \E dbok \in BOOLEAN : EnsureSchema(dbok)
    \/ \E events \in Batches, dbok \in BOOLEAN : InsertEvents(events, dbok)
    \/ \E m \in 0..HIGH_IMPORTANCE_LEVEL, dbok \in BOOLEAN : GetUnsynced(m, dbok)
    \/ \E k \in Keys \cup {MissingKey}, id \in CallerIds, dbok \in BOOLEAN :
          MarkSynced(k, id, dbok)
    \/ \E dbok \in BOOLEAN : GetStatistics(dbok)

SpecStore == Init /\ [][NextStore]_vars

(***************************************************************************)
(* The pipeline: scrapes are ingested and two sync runs, the loop of       *)
(* main.py (_sync_to_calendar) and the /sync handler of api.py, push the   *)
(* unsynced events to the external calendar.                               *)
(***************************************************************************)
\* get_unsynced_events(min_importance_level: int = 3), the default api.py uses
DEFAULT_MIN_LEVEL == 3

MinLevel(r) == IF r = "main" THEN HIGH_IMPORTANCE_LEVEL ELSE DEFAULT_MIN_LEVEL

\* CalendarService.test_connection: get_existing_events returns a list on every
\* path, so the connection test answers True
TestConnectionResult == TRUE

\* the event the loop is at
Current(r) == batch[r][Len(outcome[r]) + 1]

\* variant: the loop ends after its first event
AfterEventStops(r) == "done"

\* the loop's position after handling one more event
AfterEvent(r) == IF Len(outcome[r]) + 1 = Len(batch[r]) THEN "done" ELSE "create"

\* ensure_events_table_exists at the start of a run
EnsureSchemaStep(dbok) == EnsureTable(dbok) /\ UNCHANGED last

\* steps 2 to 4 of a run: the scraped, processed events are inserted
Ingest(events, dbok) == Insert(events, dbok) /\ UNCHANGED last

\* the run reads the unsynced events
StartSync(r, dbok) ==
    /\ pc[r] = "idle"
    /\ runs < MaxRuns
    /\ runs' = runs + 1
    /\ \E df \in UnsyncedResults(tableExists, store, MinLevel(r), dbok) :
          /\ batch' = [batch EXCEPT ![r] = df]
          /\ pc' = [pc EXCEPT ![r] = IF df = <<>> THEN "done"
                                     ELSE IF r = "main" THEN "test" ELSE "create"]
    /\ outcome' = [outcome EXCEPT ![r] = <<>>]
    /\ gcal' = [gcal EXCEPT ![r] = NULL]
    /\ synced_count' = [synced_count EXCEPT ![r] = 0]
    /\ sync_success' = [sync_success EXCEPT ![r] = TRUE]
    /\ UNCHANGED <<storeVars, connVars, created, unrecorded>>

\* main.py: the calendar connection is tested before the loop
TestConnection(r) ==
    /\ pc[r] = "test"
    /\ pc' = [pc EXCEPT ![r] = IF TestConnectionResult THEN "create" ELSE "done"]
    /\ sync_success' = [sync_success EXCEPT ![r] = TestConnectionResult]
    /\ UNCHANGED <<storeVars, connVars, created, unrecorded, runs, batch, outcome, gcal, synced_count>>

\* calendar_service.create_event(event.to_dict()): an identifier, or None
CreateEvent(r, ok) ==
    /\ pc[r] = "create"
    /\ LET k == Key(Current(r))
       IN IF ok
          THEN /\ created' = [created EXCEPT ![k] = @ + 1]
               /\ gcal' = [gcal EXCEPT ![r] = NewId(k, created[k] + 1)]
               /\ pc' = [pc EXCEPT ![r] = "mark"]
               /\ UNCHANGED <<outcome, sync_success>>
          ELSE /\ gcal' = [gcal EXCEPT ![r] = NULL]
               /\ outcome' = [outcome EXCEPT ![r] = Append(@, "create_failed")]
               /\ sync_success' = [sync_success EXCEPT ![r] = IF r = "main" THEN FALSE ELSE @]
               /\ pc' = [pc EXCEPT ![r] = AfterEvent(r)]
               /\ UNCHANGED created
    /\ UNCHANGED <<storeVars, connVars, unrecorded, runs, batch, synced_count>>

\* main.py counts an event when mark_event_as_synced returned True
CountsMarked(r, ret) == IF r = "main" THEN ret ELSE TRUE

\* db.mark_event_as_synced(event['event_datetime'], event['summary'], gcal_event_id)
MarkEvent(r, dbok) ==
    /\ pc[r] = "mark"
    /\ LET k == Key(Current(r))
           res == MarkResult(tableExists, store, k, gcal[r], dbok)
       IN /\ store' = res.store
          /\ outcome' = [outcome EXCEPT ![r] = Append(@, IF res.ret THEN "synced" ELSE "mark_failed")]
          /\ unrecorded' = [unrecorded EXCEPT ![k] = IF res.ret THEN @ ELSE @ + 1]
          /\ synced_count' = [synced_count EXCEPT ![r] = IF CountsMarked(r, res.ret) THEN @ + 1 ELSE @]
          /\ sync_success' = [sync_success EXCEPT ![r] = IF r = "main" /\ ~res.ret THEN FALSE ELSE @]
    /\ pc' = [pc EXCEPT ![r] = AfterEvent(r)]
    /\ UNCHANGED <<tableExists, last, connVars, created, runs, batch, gcal>>

\* the locals of a run are gone
Forget(r) ==
    /\ pc' = [pc EXCEPT ![r] = "idle"]
    /\ batch' = [batch EXCEPT ![r] = <<>>]
    /\ outcome' = [outcome EXCEPT ![r] = <<>>]
    /\ gcal' = [gcal EXCEPT ![r] = NULL]
    /\ synced_count' = [synced_count EXCEPT ![r] = 0]
    /\ sync_success' = [sync_success EXCEPT ![r] = TRUE]

\* the run returns its result to the caller
Return(r) ==
    /\ pc[r] = "done"
    /\ Forget(r)
    /\ UNCHANGED <<storeVars, connVars, created, unrecorded, runs>>

\* the process dies in the middle of a run
Crash(r) ==
    /\ pc[r] \in {"test", "create", "mark"}
    /\ unrecorded' = IF pc[r] = "mark"
                     THEN [unrecorded EXCEPT ![Key(Current(r))] = @ + 1]
                     ELSE unrecorded
    /\ Forget(r)
    /\ UNCHANGED <<storeVars, connVars, created, runs>>

\* a run starts only while no other run is in progress
StartSyncAlone(r, dbok) ==
    /\ \A o \in Runners \ {r} : pc[o] = "idle"
    /\ StartSync(r, dbok)

Next ==
    \/ \E dbok \in BOOLEAN : EnsureSchemaStep(dbok)
    \/ \E events \in Scrapes, dbok \in BOOLEAN : Ingest(events, dbok)
    \/ \E r \in Runners, dbok \in BOOLEAN : StartSync(r, dbok)
    \/ \E r \in Runners : TestConnection(r)
    \/ \E r \in Runners, ok \in BOOLEAN : CreateEvent(r, ok)
    \/ \E r \in Runners, dbok \in BOOLEAN : MarkEvent(r, dbok)
    \/ \E r \in Runners : Return(r)

Spec == Init /\ [][Next]_vars

NextSeq ==
    \/ \E dbok \in BOOLEAN : EnsureSchemaStep(dbok)
    \/ \E events \in Scrapes, dbok \in BOOLEAN : Ingest(events, dbok)
    \/ \E r \in Runners, dbok \in BOOLEAN : StartSyncAlone(r, dbok)
    \/ \E r \in Runners : TestConnection(r)
    \/ \E r \in Runners, ok \in BOOLEAN : CreateEvent(r, ok)
    \/ \E r \in Runners, dbok \in BOOLEAN : MarkEvent(r, dbok)
    \/ \E r \in Runners : Return(r)

SpecSeq == Init /\ [][NextSeq]_vars

\* the runs of SpecSeq, where the process may also die in the middle of a run;
\* the database is reachable whenever mark_event_as_synced is called, so that
\* only a crash leaves a created event unrecorded
NextCrash ==
    \/ \E dbok \in BOOLEAN : EnsureSchemaStep(dbok)
    \/ \E events \in Scrapes, dbok \in BOOLEAN : Ingest(events, dbok)
    \/ \E r \in Runners, dbok \in BOOLEAN : StartSyncAlone(r, dbok)
    \/ \E r \in Runners : TestConnection(r)
    \/ \E r \in Runners, ok \in BOOLEAN : CreateEvent(r, ok)
    \/ \E r \in Runners : MarkEvent(r, TRUE)
    \/ \E r \in Runners : Return(r)
    \/ \E r \in Runners : Crash(r)

SpecCrash == Init /\ [][NextCrash]_vars

(***************************************************************************)
(* SpecConn: one DatabaseConnection scope,                                 *)
(*     with DatabaseConnection(max_retries, wait_seconds) as conn: body    *)
(* from construction to the moment control leaves the with statement.      *)
(***************************************************************************)
\* what a psycopg2.connect call can do
ConnectOutcomes == {"connected", "OperationalError", "Error"}

\* variant: the error is re-raised one attempt early
LastAttemptEarly(a, m) == a >= m - 1

\* variant: range(1, self.max_retries)
InRangeShort(a, m) == a >= 1 /\ a < m

\* if attempt == self.max_retries
LastAttempt(a, m) == a = m

\* variant: except Exception
CaughtAny(result) == result # "connected"

\* except psycopg2.OperationalError
Caught(result) == result = "OperationalError"

\* for attempt in range(1, self.max_retries + 1)
InRange(a, m) == a >= 1 /\ a <= m

\* __init__
Built ==
    /\ max_retries \in -1..MaxRetries
    /\ wait_seconds \in 0..MaxWait
    /\ cpc = "enter"
    /\ attempt = 1
    /\ log = <<>>
    /\ slept = <<>>
    /\ conn = "None"
    /\ body_exc = FALSE
    /\ commits = 0
    /\ rollbacks = 0
    /\ closes = 0
    /\ raised = NoException

\* __enter__: one pass of the loop body, up to the sleep
Connect(result) ==
    /\ cpc = "enter"
    /\ InRange(attempt, max_retries)
    /\ log' = Append(log, result)
    /\ CASE result = "connected" ->
              /\ conn' = "open"
              /\ cpc' = "body"
              /\ UNCHANGED raised
         [] result # "connected" /\ Caught(result) ->
              /\ conn' = conn
              /\ IF LastAttempt(attempt, max_retries)
                 THEN cpc' = "raised" /\ raised' = <<result, attempt>>
                 ELSE cpc' = "sleep" /\ UNCHANGED raised
         [] OTHER ->
              /\ conn' = conn
              /\ cpc' = "raised"
              /\ raised' = <<result, attempt>>
    /\ UNCHANGED <<storeVars, syncVars, max_retries, wait_seconds, attempt, slept,
                   body_exc, commits, rollbacks, closes>>

\* time.sleep(self.wait_seconds), then the next pass of the loop
Sleep ==
    /\ cpc = "sleep"
    /\ slept' = Append(slept, wait_seconds)
    /\ attempt' = attempt + 1
    /\ cpc' = "enter"
    /\ UNCHANGED <<storeVars, syncVars, max_retries, wait_seconds, log, conn, body_exc,
                   commits, rollbacks, closes, raised>>

\* the loop ends without a return: __enter__ returns None
FallThrough ==
    /\ cpc = "enter"
    /\ ~InRange(attempt, max_retries)
    /\ cpc' = "body"
    /\ UNCHANGED <<storeVars, syncVars, max_retries, wait_seconds, attempt, log, slept,
                   conn, body_exc, commits, rollbacks, closes, raised>>

\* the body of the with statement runs and ends, normally or by raising
Body(exc) ==
    /\ cpc = "body"
    /\ body_exc' = exc
    /\ cpc' = "exit"
    /\ UNCHANGED <<storeVars, syncVars, max_retries, wait_seconds, attempt, log, slept,
                   conn, commits, rollbacks, closes, raised>>

\* variant: __exit__ commits whatever the body did
RollsBackNever(exc) == FALSE

\* if exc_type: rollback, else: commit
RollsBack(exc) == exc

\* __exit__(exc_type, exc_val, exc_tb); fails is whether the commit or the
\* rollback it calls raises
Exit(fails) ==
    /\ cpc = "exit"
    /\ cpc' = "left"
    /\ IF conn = "open"
       THEN /\ rollbacks' = IF RollsBack(body_exc) THEN rollbacks + 1 ELSE rollbacks
            /\ commits' = IF RollsBack(body_exc) THEN commits ELSE commits + 1
            /\ IF fails
               THEN /\ raised' = IF RollsBack(body_exc) THEN <<"rollback">> ELSE <<"commit">>
                    /\ UNCHANGED <<closes, conn>>
               ELSE /\ raised' = IF body_exc THEN <<"body">> ELSE NoException
                    /\ closes' = closes + 1
                    /\ conn' = "closed"
       ELSE /\ raised' = IF body_exc THEN <<"body">> ELSE NoException
            /\ UNCHANGED <<commits, rollbacks, closes, conn>>
    /\ UNCHANGED <<storeVars, syncVars, max_retries, wait_seconds, attempt, log, slept,
                   body_exc>>

NextConn ==
    \/ \E result \in ConnectOutcomes : Connect(result)
    \/ Sleep
    \/ FallThrough
    \/ \E exc \in BOOLEAN : Body(exc)
    \/ \E fails \in BOOLEAN : Exit(fails)

InitConn == StoreInit /\ SyncIdle /\ Built

SpecConn == InitConn /\ [][NextConn]_vars

(***************************************************************************)
(* Properties.                                                             *)
(***************************************************************************)
Rows == BagToSet(store)

RowsOf(k) == {r \in Rows : Key(r) = k}

IsSynced(k) == \E r \in RowsOf(k) : r.gcal_event_id # NULL /\ r.is_synced

IsUnsynced(k) == \E r \in RowsOf(k) : r.gcal_event_id = NULL /\ ~r.is_synced

Count(q, x) == Cardinality({i \in DOMAIN q : q[i] = x})

\* C1 (SpecStore): no two stored rows have the same (event_datetime, summary),
\* whatever sequence of ensure, insert, select and mark calls has run.
C1_NaturalKeyUnique ==
    /\ \A r \in Rows : CopiesIn(r, store) = 1
    /\ \A r1, r2 \in Rows : Key(r1) = Key(r2) => r1 = r2

\* an insert has skipped a conflicting row while a synced row is stored
C1_Witness ==
    /\ last.op = "insert"
    /\ last.ret
    /\ Len(last.events) = 2
    /\ last.rows = 0
    /\ \E r \in Rows : r.gcal_event_id # NULL
    /\ BagCardinality(store) = Cardinality(StorePool)

\* C2 (SpecStore): an insert of the batch that the previous, successful insert
\* call was given leaves the table as it is, inserts zero rows and returns True.
C2_IdempotentIngestion ==
    [][ ( /\ last.op = "insert"
          /\ last.ret
          /\ last'.op = "insert"
          /\ last'.events = last.events
          /\ last'.dbok )
        => ( /\ store' = store
             /\ last'.ret
             /\ last'.rows = 0 ) ]_vars

\* a batch of two rows has been inserted and then inserted again
C2_Witness ==
    /\ last.op = "insert"
    /\ last.ret
    /\ last.rows = 0
    /\ Len(last.events) = 2
    /\ last.events[1] # last.events[2]
    /\ \A i \in 1..2 : \E r \in Rows : Key(r) = Key(last.events[i])

\* C3 (Spec): once a row's gcal_event_id is non-null it keeps that value in
\* every later state, also when two sync runs overlap.
C3_ExternalIdWriteOnce ==
    [][ \A r \in Rows : r.gcal_event_id # NULL =>
            \E t \in BagToSet(store') :
                Key(t) = Key(r) /\ t.gcal_event_id = r.gcal_event_id ]_vars

\* C4 as claimed (SpecSeq, where no process dies): at most one external create
\* succeeds for any stored event.
C4_NoDoubleCreate == \A k \in Keys : created[k] <= 1

\* C4 amended (SpecSeq): the successful creates of an event are at most one more
\* than its creates whose mark_synced failed; an event whose identifier has
\* been stored is never created again.
C4_CreatesBounded ==
    /\ \A k \in Keys : created[k] <= 1 + unrecorded[k]
    /\ \A k \in Keys : IsSynced(k) => \A r \in Runners : pc[r] = "mark" => Key(Current(r)) # k

\* an event was created twice because the first mark_synced failed
C4_Witness ==
    \E k \in Keys : created[k] = 2 /\ unrecorded[k] = 1 /\ IsSynced(k)

\* C5 (SpecSeq): a finished run has handled every event it read; the events of a
\* run whose create and mark both succeeded are synced in the table and stay so,
\* the others are unsynced; with no mark failure the run counts as synced exactly
\* the events whose create succeeded (3 events, the 2nd failing: 3, 2, 1).
C5_FailureIsolation ==
    \A r \in Runners :
        /\ pc[r] = "done" => Len(outcome[r]) = Len(batch[r])
        /\ Len(outcome[r]) <= Len(batch[r])
        /\ \A i \in DOMAIN outcome[r] :
              IF outcome[r][i] = "synced"
              THEN IsSynced(Key(batch[r][i]))
              ELSE IsUnsynced(Key(batch[r][i]))
        /\ Count(outcome[r], "mark_failed") = 0 =>
              /\ synced_count[r] = Count(outcome[r], "synced")
              /\ Len(outcome[r]) - synced_count[r] = Count(outcome[r], "create_failed")

\* the run of main.py read three events and the create of the second failed
C5_Witness ==
    /\ pc["main"] = "done"
    /\ Len(batch["main"]) = 3
    /\ outcome["main"] = <<"synced", "create_failed", "synced">>
    /\ synced_count["main"] = 2
    /\ IsSynced(Key(batch["main"][1]))
    /\ IsUnsynced(Key(batch["main"][2]))
    /\ IsSynced(Key(batch["main"][3]))

\* the rows select_unsynced_important(min_level) is specified to return
Eligible(r, min_level) ==
    /\ r.gcal_event_id = NULL
    /\ r.level >= min_level \/ MatchesIndicator(r.summary)

\* C6 (SpecStore): get_unsynced_events(min_level) returns exactly the stored
\* events with a null external_id and (level >= min_level or a summary that
\* contains a high-value indicator name, case-insensitively).
C6_SyncEligibility ==
    (last.op = "select" /\ last.dbok /\ tableExists) =>
        {last.ret[i] : i \in DOMAIN last.ret}
            = {Project(r) : r \in {x \in Rows : Eligible(x, last.min_level)}}

\* the scope was left after a connection had been acquired
LeftWithConnection == cpc = "left" /\ conn # "None"

\* C7 (SpecConn): when a scope that acquired a connection is left, close() has
\* been called exactly once, also when the commit or rollback of __exit__ raised.
C7_ReleasedExactlyOnce == LeftWithConnection => closes = 1

\* C8 (SpecConn): leaving a scope whose body ended normally, __exit__ has called
\* commit once and never rollback; leaving one whose body raised, it has called
\* rollback once and never commit, and an exception leaves the scope (the body's,
\* unless the rollback itself raised).
C8_CommitOrRollback ==
    LeftWithConnection =>
        IF body_exc
        THEN rollbacks = 1 /\ commits = 0 /\ raised \in {<<"body">>, <<"rollback">>}
        ELSE commits = 1 /\ rollbacks = 0 /\ raised \in {NoException, <<"commit">>}

\* the body raised, __exit__ rolled back and the exception went on to the caller
C8_Witness ==
    /\ LeftWithConnection
    /\ body_exc
    /\ rollbacks = 1
    /\ raised = <<"body">>
    /\ closes = 1

AllFailed == \A i \in DOMAIN log : log[i] = "OperationalError"

Waits(n) == [i \in 1..n |-> wait_seconds]

\* C9 (SpecConn): when every attempt fails with OperationalError and
\* max_retries >= 1, acquisition ends exactly at attempt max_retries, by raising
\* that attempt's error, after max_retries - 1 sleeps of wait_seconds each.
C9_BoundedAcquisition ==
    (AllFailed /\ max_retries >= 1) =>
        /\ Len(log) <= max_retries
        /\ (cpc = "raised") = (Len(log) = max_retries)
        /\ cpc = "raised" =>
              /\ slept = Waits(max_retries - 1)
              /\ raised = <<"OperationalError", max_retries>>
        /\ cpc \in {"enter", "sleep", "raised"}

\* three attempts failed, two sleeps of two seconds, the third error is raised
C9_Witness ==
    /\ max_retries = 3
    /\ wait_seconds = 2
    /\ log = <<"OperationalError", "OperationalError", "OperationalError">>
    /\ slept = <<2, 2>>
    /\ cpc = "raised"
    /\ raised = <<"OperationalError", 3>>

\* the first k attempts failed with OperationalError and attempt k + 1 connected
ConnectedAfterFailures ==
    /\ Len(log) >= 1
    /\ log[Len(log)] = "connected"
    /\ \A i \in 1..(Len(log) - 1) : log[i] = "OperationalError"

\* C10 (SpecConn): while fewer than max_retries attempts have failed the next
\* attempt is still made; when attempt k + 1 connects after k failures (k <
\* max_retries) the body gets the open connection after exactly k sleeps of
\* wait_seconds, and no connection error leaves the scope.
C10_RetryThenSucceed ==
    /\ (AllFailed /\ Len(log) < max_retries) =>
          cpc \in {"enter", "sleep"} /\ raised = NoException
    /\ ConnectedAfterFailures =>
          /\ Len(log) <= max_retries
          /\ slept = Waits(Len(log) - 1)
          /\ cpc \in {"body", "exit", "left"}
          /\ conn \in {"open", "closed"}
          /\ cpc \in {"body", "exit"} => conn = "open" /\ raised = NoException
          /\ raised[1] \notin {"OperationalError", "Error"}

\* two attempts failed and the third connected, with max_retries = 3
C10_Witness ==
    /\ max_retries = 3
    /\ log = <<"OperationalError", "OperationalError", "connected">>
    /\ slept = <<wait_seconds, wait_seconds>>
    /\ cpc = "body"
    /\ conn = "open"
    /\ raised = NoException

(***************************************************************************)
(* The result a sync run hands back.                                       *)
(***************************************************************************)
\* api.py: errors starts empty and is appended to in the except branch only;
\* create_event and mark_event_as_synced turn every exception into None and
\* False, so the branch is never entered
errors == <<>>

\* the dictionary trigger_sync returns after its loop
TriggerSyncResult ==
    [success |-> Len(errors) = 0,
     synced |-> synced_count["api"],
     total |-> Len(batch["api"]),
     errors |-> errors]

\* what a run reports about its failures: main.py returns sync_success, the
\* /sync handler returns "success"
ReportsFailure(r) == IF r = "main" THEN ~sync_success[r] ELSE ~TriggerSyncResult.success

\* C11 (SpecSeq): a finished run in which a mark_synced call failed after a
\* successful create reports a failure, counts as synced only the events whose
\* mark succeeded, and has handled every event it read.
C11_MarkFailureRecorded ==
    \A r \in Runners :
        (pc[r] = "done" /\ Count(outcome[r], "mark_failed") > 0) =>
            /\ ReportsFailure(r)
            /\ synced_count[r] = Count(outcome[r], "synced")
            /\ Len(outcome[r]) = Len(batch[r])

\* the events of a finished /sync run that are not marked synced
Failed(r) == {i \in DOMAIN outcome[r] : outcome[r][i] # "synced"}

\* C12 (SpecSeq): the result of a finished /sync run has total = synced + failed
\* with one cause in errors per failed event, total is the number of events
\* read and synced the number of events the run marked synced; the run of
\* main.py counts exactly the events it marked synced and returns True only
\* when none failed.
C12_AggregateConsistent ==
    /\ pc["api"] = "done" =>
          /\ TriggerSyncResult.total = Len(outcome["api"])
          /\ TriggerSyncResult.synced = Count(outcome["api"], "synced")
          /\ Len(TriggerSyncResult.errors) = Cardinality(Failed("api"))
          /\ TriggerSyncResult.total
                = TriggerSyncResult.synced + Len(TriggerSyncResult.errors)
    /\ pc["main"] = "done" =>
          /\ synced_count["main"] = Count(outcome["main"], "synced")
          /\ sync_success["main"] = (Failed("main") = {})

(***************************************************************************)
(* SpecRetry: sync runs keep being invoked, one at a time. The first       *)
(* MaxFaulty runs may fail in any way; in every later run the database,    *)
(* the external create and mark_event_as_synced succeed.                   *)
(***************************************************************************)
\* a run starts once the runs before it have finished; after the first MaxFaulty
\* runs get_unsynced_events reads the table
StartSyncRetry(r, dbok) ==
    /\ pc[r] = "idle"
    /\ \A o \in Runners \ {r} : pc[o] \in {"idle", "done"}
    /\ runs >= MaxFaulty => dbok
    /\ runs' = IF runs > MaxFaulty THEN runs ELSE runs + 1
    /\ \E df \in UnsyncedResults(tableExists, store, MinLevel(r), dbok) :
          /\ batch' = [batch EXCEPT ![r] = df]
          /\ pc' = [pc EXCEPT ![r] = IF df = <<>> THEN "done"
                                     ELSE IF r = "main" THEN "test" ELSE "create"]
    /\ outcome' = [outcome EXCEPT ![r] = <<>>]
    /\ gcal' = [gcal EXCEPT ![r] = NULL]
    /\ synced_count' = [synced_count EXCEPT ![r] = 0]
    /\ sync_success' = [sync_success EXCEPT ![r] = TRUE]
    /\ UNCHANGED <<storeVars, connVars, created, unrecorded>>

\* create_event of a run; it succeeds in the runs after the first MaxFaulty
CreateEventRetry(r, ok) ==
    /\ pc[r] = "create"
    /\ runs > MaxFaulty => ok
    /\ created[Key(Current(r))] <= MaxFaulty
    /\ CreateEvent(r, ok)

\* mark_event_as_synced of a run; it succeeds in the runs after the first MaxFaulty
MarkEventRetry(r, dbok) ==
    /\ runs > MaxFaulty => dbok
    /\ MarkEvent(r, dbok)

\* the steps of the sync runs
RunSteps ==
    \/ \E r \in Runners, dbok \in BOOLEAN : StartSyncRetry(r, dbok)
    \/ \E r \in Runners : TestConnection(r)
    \/ \E r \in Runners, ok \in BOOLEAN : CreateEventRetry(r, ok)
    \/ \E r \in Runners, dbok \in BOOLEAN : MarkEventRetry(r, dbok)
    \/ \E r \in Runners : Return(r)

NextRetry ==
    \/ \E dbok \in BOOLEAN : EnsureSchemaStep(dbok)
    \/ \E events \in Scrapes, dbok \in BOOLEAN : Ingest(events, dbok)
    \/ \E r \in Runners, dbok \in BOOLEAN : StartSyncRetry(r, dbok)
    \/ \E r \in Runners : TestConnection(r)
    \/ \E r \in Runners, ok \in BOOLEAN : CreateEventRetry(r, ok)
    \/ \E r \in Runners, dbok \in BOOLEAN : MarkEventRetry(r, dbok)
    \/ \E r \in Runners : Return(r)

\* sync runs keep being invoked and every run takes its steps
SpecRetry == Init /\ [][NextRetry]_vars /\ WF_vars(RunSteps)

\* the external create of event k failed in a run whose result is still held
CreateFailedFor(k) ==
    \E r \in Runners : \E i \in DOMAIN outcome[r] :
        outcome[r][i] = "create_failed" /\ Key(batch[r][i]) = k

\* when a run finishes, every event whose create failed in it is stored with a
\* null gcal_event_id and satisfies the WHERE clause of every runner
FailedStaysUnsynced ==
    \A r \in Runners : (pc[r] # "done" /\ pc'[r] = "done") =>
        \A i \in DOMAIN outcome'[r] : outcome'[r][i] = "create_failed" =>
            /\ \E row \in BagToSet(store') : Key(row) = Key(batch'[r][i])
            /\ \A row \in BagToSet(store') : Key(row) = Key(batch'[r][i]) =>
                  /\ row.gcal_event_id = NULL
                  /\ \A o \in Runners : Selects(row, MinLevel(o))

\* a run that reads the table selects every unsynced row of its level
NextRunSelects ==
    \A r \in Runners : (pc[r] = "idle" /\ pc'[r] # "idle" /\ runs' > MaxFaulty) =>
        \A row \in Rows : Selects(row, MinLevel(r)) =>
            \E i \in DOMAIN batch'[r] : batch'[r][i] = Project(row)

\* C13 (SpecRetry): an event whose external create failed in a run is still
\* unsynced when the run finishes and is selected by the next run that reads the
\* table; when runs keep being invoked and from some run on create and
\* mark_synced succeed, the event eventually is synced.
C13_FailedIsRetried ==
    /\ [][FailedStaysUnsynced /\ NextRunSelects]_vars
    /\ \A e \in SyncPool : CreateFailedFor(Key(e)) ~> IsSynced(Key(e))

\* the create of an event failed in the run of main.py, and a later /sync run
\* created the event and marked it synced
C13_Witness ==
    \E k \in Keys :
        /\ pc["main"] = "done"
        /\ CreateFailedFor(k)
        /\ pc["api"] = "done"
        /\ \E i \in DOMAIN outcome["api"] :
              outcome["api"][i] = "synced" /\ Key(batch["api"][i]) = k
        /\ IsSynced(k)
        /\ created[k] = 1

\* the process died between a successful create and mark_event_as_synced: the
\* table is as it was, with one unsynced row for the event that every runner's
\* WHERE clause selects
CrashLeavesUnsynced ==
    \A r \in Runners : (pc[r] = "mark" /\ pc'[r] = "idle") =>
        LET k == Key(Current(r))
        IN /\ store' = store
           /\ SumCopies(RowsOf(k), store) = 1
           /\ \A row \in RowsOf(k) :
                 /\ row.gcal_event_id = NULL
                 /\ \A o \in Runners : Selects(row, MinLevel(o))

\* a run that has read rows has read every unsynced event whose create was
\* left unrecorded
NextRunSelectsUnrecorded ==
    \A r \in Runners : (pc[r] = "idle" /\ pc'[r] # "idle" /\ batch'[r] # <<>>) =>
        \A k \in Keys : (unrecorded[k] > 0 /\ IsUnsynced(k)) =>
            \E i \in DOMAIN batch'[r] : Key(batch'[r][i]) = k

\* C14 (SpecCrash): when the process dies after the external create of an event
\* returned an identifier and before mark_synced, the event is still unsynced in
\* the table, which holds exactly one row for its key and the next run that
\* reads rows selects it (and so creates it a second time).
C14_CrashWindow == [][CrashLeavesUnsynced /\ NextRunSelectsUnrecorded]_vars

\* after such a crash the next run has issued the second create for the event
C14_Witness ==
    \E k \in Keys, r \in Runners :
        /\ created[k] = 2
        /\ unrecorded[k] = 1
        /\ pc[r] = "mark"
        /\ Key(Current(r)) = k
        /\ gcal[r] = NewId(k, 2)
        /\ SumCopies(RowsOf(k), store) = 1
        /\ IsUnsynced(k)

\* the stored identifier of a row is one the external calendar returned for
\* the row's own event
IdOfOwnEvent(row) ==
    \E n \in 1..created[Key(row)] : row.gcal_event_id = NewId(Key(row), n)

\* C15 as claimed (SpecSeq): when a run has finished, a stored event has a
\* non-null gcal_event_id exactly when a create for it has returned an
\* identifier, and the value is an identifier returned for that event.
C15_ExternalIdIffCreated ==
    (\E r \in Runners : pc[r] = "done") =>
        \A row \in Rows :
            /\ row.gcal_event_id # NULL <=> created[Key(row)] > 0
            /\ row.gcal_event_id # NULL => IdOfOwnEvent(row)

\* C15 amended (SpecSeq): a non-null gcal_event_id is always an identifier the
\* external calendar returned for that same event; while no run is in progress
\* a stored event has a non-null gcal_event_id exactly when one of its creates
\* was followed by a successful mark_synced.
C15_ExternalIdOnlyIfCreated ==
    /\ \A row \in Rows : row.gcal_event_id # NULL => IdOfOwnEvent(row)
    /\ (\A r \in Runners : pc[r] \in {"idle", "done"}) =>
          \A row \in Rows :
              row.gcal_event_id # NULL <=> created[Key(row)] > unrecorded[Key(row)]

\* a run has finished; one event is stored with the identifier of its second
\* create, and another was created but is stored without an identifier
C15_Witness ==
    /\ \E r \in Runners : pc[r] = "done"
    /\ \E row \in Rows :
          /\ created[Key(row)] = 2
          /\ row.gcal_event_id = NewId(Key(row), 2)
    /\ \E row \in Rows :
          /\ created[Key(row)] = 1
          /\ unrecorded[Key(row)] = 1
          /\ row.gcal_event_id = NULL

\* C16 (SpecStore): a mark_synced call for a key that no stored row has, or one
\* during which the database cannot be reached, returns False and leaves the
\* table as it was.
C16_MissingKeyReported ==
    [][ ( /\ last'.op = "mark"
          /\ RowsOf(last'.key) = {} \/ ~last'.dbok )
        => ( /\ last'.ret = FALSE
             /\ store' = store ) ]_vars

\* a call for a key that is not stored returned False while rows are stored,
\* one of them synced
C16_Witness ==
    /\ last.op = "mark"
    /\ last.key = MissingKey
    /\ last.dbok
    /\ last.ret = FALSE
    /\ tableExists
    /\ BagCardinality(store) = 2
    /\ \E r \in Rows : r.gcal_event_id # NULL

\* C17 (SpecStore): a mark_synced call for the key of a stored row, with the
\* database reachable, returns True, stores the given identifier in that row,
\* leaves its event_datetime, summary, country and level as they were and
\* leaves every other row unchanged.
C17_TargetedRowOnly ==
    [][ ( /\ last'.op = "mark"
          /\ last'.dbok
          /\ RowsOf(last'.key) # {} )
        => ( /\ last'.ret = TRUE
             /\ BagCardinality(store') = BagCardinality(store)
             /\ \A row \in Rows :
                   IF Key(row) = last'.key
                   THEN \E t \in BagToSet(store') :
                           /\ Project(t) = Project(row)
                           /\ t.gcal_event_id = last'.id
                   ELSE CopiesIn(row, store') = CopiesIn(row, store)
             /\ \A t \in BagToSet(store') :
                   IF Key(t) = last'.key
                   THEN t.gcal_event_id = last'.id
                   ELSE t \in Rows ) ]_vars

\* three rows are stored; the call marked one of them, one carries the
\* identifier of an earlier call and one is unsynced
C17_Witness ==
    /\ last.op = "mark"
    /\ last.ret
    /\ BagCardinality(store) = 3
    /\ \E r \in RowsOf(last.key) : r.gcal_event_id = last.id
    /\ \E r \in Rows : Key(r) # last.key /\ r.gcal_event_id \notin {NULL, last.id}
    /\ \E r \in Rows : Key(r) # last.key /\ r.gcal_event_id = NULL

\* the data frame q ascends by event_datetime
Ascending(q) ==
    \A i, j \in DOMAIN q : i < j => q[i].event_datetime <= q[j].event_datetime

\* the loop of run r has handled the events before its position, in the order
\* of the data frame, and marks with an identifier of the event it is at
LoopInOrder(r) ==
    /\ Len(outcome[r]) <= Len(batch[r])
    /\ pc[r] \in {"create", "mark"} => Len(outcome[r]) < Len(batch[r])
    /\ pc[r] = "done" => Len(outcome[r]) = Len(batch[r])
    /\ pc[r] = "mark" =>
          \E n \in 1..created[Key(Current(r))] : gcal[r] = NewId(Key(Current(r)), n)

\* a create is issued for the event at the position of the loop of one run
CreatesAtPosition ==
    \A k \in Keys : created'[k] # created[k] =>
        /\ created'[k] = created[k] + 1
        /\ \A o \in Keys \ {k} : created'[o] = created[o]
        /\ \E r \in Runners : pc[r] = "create" /\ Key(Current(r)) = k /\ pc'[r] = "mark"

\* two events that two runs both read come in the same order in both
SameOrder(r1, r2, a, b) ==
    \A i, j \in DOMAIN batch[r1], i2, j2 \in DOMAIN batch[r2] :
        (batch[r1][i] = a /\ batch[r1][j] = b /\ batch[r2][i2] = a /\ batch[r2][j2] = b)
            => (i < j <=> i2 < j2)

Writers(k) ==
    {r \in Runners : \E i \in DOMAIN outcome[r] :
        outcome[r][i] = "synced" /\ Key(batch[r][i]) = k}

\* C19 (Spec): however a run of main.py, a /sync run and the inserts interleave,
\* the table holds one row per natural key and the gcal_event_id of a row is
\* written by at most one of the two runs.
C19_OverlapSafe ==
    /\ \A row \in Rows : CopiesIn(row, store) = 1
    /\ \A r1, r2 \in Rows : Key(r1) = Key(r2) => r1 = r2
    /\ \A k \in Keys : Cardinality(Writers(k)) <= 1

(***************************************************************************)
(* SpecNorm: EventProcessor.clean_and_transform applied to batches of raw  *)
(* tuples (date, time, country, level, summary). A label is the sequence   *)
(* of its tokens; "" is the empty sequence.                                *)
(***************************************************************************)
\* a missing value of a column (None, NaN)
NaN == <<"NaN">>

\* a missing timestamp
NaT == <<"NaT">>

\* the value of pd.Timestamp.now(tz=pytz.UTC)
Now == <<"now", "UTC">>

Blank == <<" ", " ">>

Number == ("1" :> 1) @@ ("2" :> 2) @@ ("3" :> 3) @@ ("8" :> 8) @@ ("12" :> 12)
          @@ ("16" :> 16) @@ ("17" :> 17) @@ ("30" :> 30) @@ ("2026" :> 2026)

Weekdays == {"Monday", "Tuesday", "Wednesday", "Thursday", "Friday", "Saturday", "Sunday"}

MonthNumber == ("January" :> 1) @@ ("February" :> 2) @@ ("March" :> 3)

Monday16 == <<"Monday", "February", "16", "2026">>
Tuesday17 == <<"Tuesday", "February", "17", "2026">>
IsoDate == <<"2026", "-", "2", "-", "16">>

HalfPastEight == <<"8", "30", "AM">>

Marker == "calendar-date-"

RawTuple(d, t, c, l, s) == [date |-> d, time |-> t, country |-> c, level |-> l, summary |-> s]

\* the raw tuples a scrape can deliver
RawPool ==
    { RawTuple(Monday16, HalfPastEight, <<"US">>, <<Marker, "3">>, JoblessClaims),
      RawTuple(Tuesday17, <<>>, <<"US">>, <<Marker, "1">>, Permits),
      RawTuple(Monday16, HalfPastEight, <<"US">>, <<Marker, "2">>, <<>>),
      RawTuple(Tuesday17, HalfPastEight, <<>>, <<"2">>, Blank),
      RawTuple(Monday16, <<"12", "30", "PM">>, <<"US">>, <<Marker, "3">>, NaN),
      RawTuple(IsoDate, HalfPastEight, <<"US">>, <<Marker, "1">>, RetailSales),
      RawTuple(Tuesday17, HalfPastEight, <<"US">>, <<"high">>, Payrolls) }

RawBatches == SeqsUpTo(RawPool, MaxRaw)

\* raw_events_to_dataframe: the rows with the default index 0..n-1
RawEventsToDataframe(raw) ==
    [i \in DOMAIN raw |->
        [index |-> i - 1, date |-> raw[i].date, time |-> raw[i].time,
         country |-> raw[i].country, level |-> raw[i].level, summary |-> raw[i].summary]]

\* .str.split("calendar-date-").str[-1]: what follows the last marker
RECURSIVE AfterLastMarker(_)
AfterLastMarker(l) ==
    IF \E i \in DOMAIN l : l[i] = Marker
    THEN AfterLastMarker(Tail(l))
    ELSE l

\* int(s) succeeds
IsInt(l) == Len(l) = 1 /\ l[1] \in DOMAIN Number

\* _clean_importance_level: .astype(int) converts the whole column or raises,
\* and the except branch sets the level of every row to 0
CleanImportanceLevel(df) ==
    IF \A i \in DOMAIN df : IsInt(AfterLastMarker(df[i].level))
    THEN [i \in DOMAIN df |-> [df[i] EXCEPT !.level = Number[AfterLastMarker(@)[1]]]]
    ELSE [i \in DOMAIN df |-> [df[i] EXCEPT !.level = 0]]

\* strptime format '%A %B %d %Y'
ParsesAsDate(d) ==
    /\ Len(d) = 4
    /\ d[1] \in Weekdays
    /\ d[2] \in DOMAIN MonthNumber
    /\ d[3] \in DOMAIN Number /\ Number[d[3]] \in 1..31
    /\ d[4] \in DOMAIN Number

ParsedDate(d) == <<Number[d[4]], MonthNumber[d[2]], Number[d[3]]>>

\* strptime format '%I:%M %p'
ParsesAsTime(t) ==
    /\ Len(t) = 3
    /\ t[1] \in DOMAIN Number /\ Number[t[1]] \in 1..12
    /\ t[2] \in DOMAIN Number /\ Number[t[2]] \in 0..59
    /\ t[3] \in {"AM", "PM"}

\* errors='coerce', .dt.time, .fillna(datetime.time(0, 0))
ParsedTime(t) ==
    IF ParsesAsTime(t)
    THEN <<(Number[t[1]] % 12) + (IF t[3] = "PM" THEN 12 ELSE 0), Number[t[2]]>>
    ELSE <<0, 0>>

\* _parse_datetime_columns: pd.to_datetime(df['date'], format=...) parses the
\* whole column or raises, and the except branch gives every row the current time
ParseDatetimeColumns(df) ==
    IF \A i \in DOMAIN df : ParsesAsDate(df[i].date)
    THEN [i \in DOMAIN df |->
            [index |-> df[i].index, date |-> df[i].date, time |-> df[i].time,
             country |-> df[i].country, level |-> df[i].level, summary |-> df[i].summary,
             event_datetime |-> ParsedDate(df[i].date) \o ParsedTime(df[i].time) \o <<"UTC">>]]
    ELSE [i \in DOMAIN df |->
            [index |-> df[i].index, date |-> df[i].date, time |-> df[i].time,
             country |-> df[i].country, level |-> df[i].level, summary |-> df[i].summary,
             event_datetime |-> Now]]

\* .replace("", np.nan), one cell
ReplaceEmpty(v) == IF v = <<>> THEN NaN ELSE v

\* processed_df.replace("", np.nan)
ReplaceEmptyStrings(df) ==
    [i \in DOMAIN df |->
        [df[i] EXCEPT !.date = ReplaceEmpty(@), !.time = ReplaceEmpty(@),
                      !.country = ReplaceEmpty(@), !.summary = ReplaceEmpty(@)]]

\* the summary column no longer has dtype object: replace has put a NaN into
\* it, only missing values are left in it, and this pandas converts such an
\* object column to float64 (pandas before 3.0 does, pandas 3.0 does not)
SummaryIsFloat(before, after, downcasts) ==
    /\ downcasts
    /\ \E i \in DOMAIN before : before[i].summary = <<>>
    /\ \A i \in DOMAIN after : after[i].summary = NaN

\* .str.strip()
RECURSIVE Strip(_)
Strip(s) ==
    IF s = <<>> THEN s
    ELSE IF Head(s) = " " THEN Strip(Tail(s))
    ELSE IF s[Len(s)] = " " THEN Strip(SubSeq(s, 1, Len(s) - 1))
    ELSE s

\* df['summary'].str.strip() != ''
KeepsSummary(r) == Strip(r.summary) # <<>>

RECURSIVE Reverse(_)
Reverse(s) == IF s = <<>> THEN s ELSE Reverse(Tail(s)) \o <<Head(s)>>

\* variant: the rows that pass come out last first
RemoveInvalidRowsReversed(df, summaryIsFloat) ==
    LET keep(r) == r.summary # NaN /\ r.event_datetime # NaT /\ Strip(r.summary) # <<>>
    IN [raised |-> summaryIsFloat,
        df |-> IF summaryIsFloat THEN <<>> ELSE Reverse(SelectSeq(df, keep))]

\* _remove_invalid_rows: the two dropna calls and the boolean indexing keep the
\* rows that pass, in order; the .str accessor raises AttributeError on a
\* column that is not of strings
RemoveInvalidRows(df, summaryIsFloat) ==
    LET hasSummary(r) == r.summary # NaN
        hasDatetime(r) == r.event_datetime # NaT
        kept == SelectSeq(SelectSeq(df, hasSummary), hasDatetime)
    IN IF summaryIsFloat
       THEN [raised |-> TRUE, df |-> <<>>]
       ELSE [raised |-> FALSE, df |-> SelectSeq(kept, KeepsSummary)]

\* clean_and_transform(raw_events_df): the frame returned, or that it raised
CleanAndTransform(raw_events_df, downcasts) ==
    IF raw_events_df = <<>> THEN [raised |-> FALSE, df |-> <<>>]
    ELSE LET parsed == ParseDatetimeColumns(CleanImportanceLevel(raw_events_df))
             replaced == ReplaceEmptyStrings(parsed)
         IN RemoveInvalidRows(replaced, SummaryIsFloat(parsed, replaced, downcasts))

\* processor.clean_and_transform(processor.raw_events_to_dataframe(raw_events));
\* the processor keeps no state between calls, so a behaviour holds one call
Normalize(raw, downcasts) ==
    /\ last = NoCall
    /\ last' = [op |-> "clean", raw |-> raw,
                out |-> CleanAndTransform(RawEventsToDataframe(raw), downcasts)]
    /\ UNCHANGED <<tableExists, store, syncVars, connVars>>

NextNorm == \E raw \in RawBatches, downcasts \in BOOLEAN : Normalize(raw, downcasts)

SpecNorm == Init /\ [][NextNorm]_vars

\* the positions of the raw tuples whose summary is present and not blank and
\* whose date label parses
ValidRows(raw) ==
    {i \in DOMAIN raw :
        /\ raw[i].summary # NaN
        /\ Strip(raw[i].summary) # <<>>
        /\ ParsesAsDate(raw[i].date)}

\* C20 (SpecNorm): clean_and_transform returns, without raising, exactly the
\* rows of its input whose summary is present and non-empty after trimming and
\* whose datetime could be constructed (3 tuples with 1 invalid give 2), each
\* with a non-null event_datetime and its own summary.
C20_RowRejection ==
    last.op = "clean" =>
        /\ last.out.raised = FALSE
        /\ {last.out.df[j].index + 1 : j \in DOMAIN last.out.df} = ValidRows(last.raw)
        /\ Len(last.out.df) = Cardinality(ValidRows(last.raw))
        /\ \A j \in DOMAIN last.out.df :
              /\ last.out.df[j].event_datetime \notin {NaT, NaN}
              /\ last.out.df[j].summary = last.raw[last.out.df[j].index + 1].summary

\* the event_datetime that the labels of one raw tuple give
OwnDatetime(t) == ParsedDate(t.date) \o ParsedTime(t.time) \o <<"UTC">>

\* the raw tuple an output row came from
RawOf(row) == last.raw[row.index + 1]

\* C21 (SpecNorm): for a batch with exactly one row whose date label cannot be
\* parsed, clean_and_transform does not raise, drops that row and no other row
\* with a valid summary, and gives every row it returns the event_datetime of
\* the row's own date and time labels.
C21_MalformedIsolated ==
    ( /\ last.op = "clean"
      /\ Cardinality({i \in DOMAIN last.raw : ~ParsesAsDate(last.raw[i].date)}) = 1 )
    => ( /\ last.out.raised = FALSE
         /\ {last.out.df[j].index + 1 : j \in DOMAIN last.out.df} = ValidRows(last.raw)
         /\ \A j \in DOMAIN last.out.df :
               /\ ParsesAsDate(RawOf(last.out.df[j]).date)
               /\ last.out.df[j].event_datetime = OwnDatetime(RawOf(last.out.df[j])) )

\* the level the label of one raw tuple gives
OwnLevel(t) ==
    IF IsInt(AfterLastMarker(t.level)) THEN Number[AfterLastMarker(t.level)[1]] ELSE 0

\* C22 (SpecNorm): clean_and_transform does not raise over a level label, and
\* the level of every row it returns is the integer after the last
\* "calendar-date-" marker of the row's own label (or the bare digit string),
\* or 0 when that label cannot be parsed, whatever the labels of the other rows.
C22_LevelPerRow ==
    (last.op = "clean" /\ ~last.out.raised) =>
        \A j \in DOMAIN last.out.df :
            last.out.df[j].level = OwnLevel(RawOf(last.out.df[j]))

\* C23 (SpecNorm): every returned row whose date label parses has the
\* event_datetime of that date, labelled UTC, at the hour and minute of its
\* time label, or at 00:00 when the time label is empty or cannot be parsed.
C23_MidnightDefault ==
    (last.op = "clean" /\ ~last.out.raised) =>
        \A j \in DOMAIN last.out.df :
            LET t == RawOf(last.out.df[j])
            IN ParsesAsDate(t.date) =>
                  /\ last.out.df[j].event_datetime = OwnDatetime(t)
                  /\ ~ParsesAsTime(t.time) =>
                        last.out.df[j].event_datetime = ParsedDate(t.date) \o <<0, 0, "UTC">>

\* C24 (SpecNorm): the rows clean_and_transform returns are rows of its input,
\* in the order of the raw tuples they came from.
C24_OrderPreserved ==
    (last.op = "clean" /\ ~last.out.raised) =>
        /\ \A j, k \in DOMAIN last.out.df :
              j < k => last.out.df[j].index < last.out.df[k].index
        /\ \A j \in DOMAIN last.out.df :
              /\ last.out.df[j].index + 1 \in DOMAIN last.raw
              /\ last.out.df[j].summary = RawOf(last.out.df[j]).summary
              /\ last.out.df[j].date = RawOf(last.out.df[j]).date

\* of three different raw tuples the second was rejected; the first and the
\* third were returned, in that order
C24_Witness ==
    /\ last.op = "clean"
    /\ ~last.out.raised
    /\ Len(last.raw) = 3
    /\ last.raw[1] # last.raw[3]
    /\ Strip(last.raw[2].summary) = <<>>
    /\ Len(last.out.df) = 2
    /\ last.out.df[1].index = 0
    /\ last.out.df[2].index = 2
    /\ last.out.df[1].event_datetime # last.out.df[2].event_datetime

\* the natural keys stored in s
StoredKeys(s) == {Key(r) : r \in BagToSet(s)}

\* the distinct natural keys of a batch that s does not hold
AbsentKeys(events, s) == {Key(events[i]) : i \in DOMAIN events} \ StoredKeys(s)

\* the integer a Python bool compares equal to (True == 1, False == 0)
AsInt(b) == IF b THEN 1 ELSE 0

\* C25 (SpecStore): a successful insert_events_from_dataframe call returns the
\* number of rows it inserted, which is the number of distinct natural keys of
\* the batch that were absent from the store before the call.
C25_ReturnsInsertedCount ==
    [][\A events \in Batches :
          (InsertEvents(events, TRUE) /\ tableExists) =>
              /\ last'.rows = Cardinality(AbsentKeys(events, store))
              /\ AsInt(last'.ret) = last'.rows]_vars

\* C26 (SpecStore): insert_events_from_dataframe with an empty frame returns
\* True whether or not the database can be reached (no connection scope is
\* entered), inserts nothing and leaves the table, the schema and the
\* connection state as they were.
C26_EmptyBatchNoOp ==
    [][\A dbok \in BOOLEAN :
          InsertEvents(<<>>, dbok) =>
              /\ last'.ret = TRUE
              /\ last'.rows = 0
              /\ store' = store
              /\ tableExists' = tableExists
              /\ UNCHANGED connVars]_vars

\* an empty frame was passed while the database was unreachable and rows were stored
C26_Witness ==
    /\ last.op = "insert"
    /\ last.events = <<>>
    /\ ~last.dbok
    /\ last.ret = TRUE
    /\ store # EmptyBag

\* C27 (SpecStore): ensure_events_table_exists returns True whenever its
\* statements run, also when the table is already there, and False (never an
\* exception) when they do not; it leaves every stored row as it was, never
\* removes the table, and after a successful call the schema is that of a
\* single call.
C27_EnsureIdempotent ==
    [][\A dbok \in BOOLEAN :
          EnsureSchema(dbok) =>
              /\ store' = store
              /\ tableExists => tableExists'
              /\ last'.ret = dbok
              /\ dbok => tableExists'
              /\ ~dbok => tableExists' = tableExists]_vars

\* a call succeeded on a table that already existed and held rows
C27_Witness ==
    /\ last.op = "ensure"
    /\ last.ret = TRUE
    /\ tableExists
    /\ store # EmptyBag

(***************************************************************************)
(* SpecEntry: the pipeline entry points, run one at a time.  last is the   *)
(* frame of the run: the entry point, the statement it is at, the          *)
(* processed frame, what ensure_events_table_exists returned, the rows its *)
(* insert added and what the run returned.                                 *)
(***************************************************************************)
EntryPoints ==
    {"run_full_sync", "run_database_only", "run_calendar_only", "handler",
     "trigger_scrape", "trigger_sync"}

\* the entry points that are a calendar sync and nothing else
SyncOnly(e) == e \in {"run_calendar_only", "trigger_sync"}

\* the sync loop an entry point runs: _sync_to_calendar of main.py, or the
\* loop of the /sync handler
Runner(e) == IF e = "trigger_sync" THEN "api" ELSE "main"

\* run_full_sync and run_database_only test what ensure_events_table_exists
\* returned; handler and trigger_scrape call it as a statement
ChecksEnsure(e) == e \in {"run_full_sync", "run_database_only"}

\* variant: no entry point tests what insert_events_from_dataframe returned
ChecksInsertNever(e) == FALSE

\* run_full_sync and run_database_only test what insert_events_from_dataframe
\* returned; handler and trigger_scrape call it as a statement
ChecksInsert(e) == e \in {"run_full_sync", "run_database_only"}

\* trigger_scrape scrapes and processes before it ensures the table
FirstStep(e) ==
    CASE e = "trigger_scrape" -> "scrape"
      [] SyncOnly(e) -> "sync"
      [] OTHER -> "ensure"

AfterEnsure(e) == IF e = "trigger_scrape" THEN "insert" ELSE "scrape"

AfterScrape(e) == IF e = "trigger_scrape" THEN "ensure" ELSE "insert"

\* run_full_sync goes on to _sync_to_calendar, run_database_only to _print_summary
AfterInsert(e) ==
    CASE e = "run_full_sync" -> "sync"
      [] e = "run_database_only" -> "summary"
      [] OTHER -> "returned"

\* an empty scrape: False from main.py, {"success": False, ...} from the others
EmptyScrapeResult(e) == "failure"

\* a processed frame without rows: True, {"success": True, ...}
EmptyFrameResult(e) == "success"

EntryIdle == last.op = "none" \/ (last.op = "entry" /\ last.at = "returned")

Begin(e) ==
    /\ EntryIdle
    /\ (e = "run_full_sync" \/ SyncOnly(e)) => runs < MaxRuns
    /\ last' = [op |-> "entry", entry |-> e, at |-> FirstStep(e), steps |-> <<>>,
                events |-> <<>>, ensured |-> "not called", rows |-> 0,
                synced |-> FALSE, total |-> 0, sync_ok |-> TRUE,
                stats |-> EmptyDict, result |-> "none"]
    /\ UNCHANGED <<tableExists, store, syncVars, connVars>>

\* db.ensure_events_table_exists()
EntryEnsure(dbok) ==
    /\ last.op = "entry"
    /\ last.at = "ensure"
    /\ EnsureTable(dbok)
    /\ last' = IF ~dbok /\ ChecksEnsure(last.entry)
               THEN [last EXCEPT !.ensured = "False", !.at = "returned",
                                 !.result = "failure", !.steps = Append(@, "ensure")]
               ELSE [last EXCEPT !.ensured = IF dbok THEN "True" ELSE "False",
                                 !.at = AfterEnsure(last.entry),
                                 !.steps = Append(@, "ensure")]

\* scraper.scrape_events(), raw_events_to_dataframe and clean_and_transform:
\* nothing scraped, or the processed frame
EntryScrape(scraped, events) ==
    /\ last.op = "entry"
    /\ last.at = "scrape"
    /\ last' = IF ~scraped
               THEN [last EXCEPT !.at = "returned", !.steps = Append(@, "scrape"),
                                 !.result = EmptyScrapeResult(last.entry)]
               ELSE IF events = <<>>
               THEN [last EXCEPT !.at = "returned", !.steps = Append(@, "scrape"),
                                 !.result = EmptyFrameResult(last.entry)]
               ELSE [last EXCEPT !.events = events, !.at = AfterScrape(last.entry),
                                 !.steps = Append(@, "scrape")]
    /\ UNCHANGED <<tableExists, store, syncVars, connVars>>

\* db.insert_events_from_dataframe(processed_df)
EntryInsert(dbok) ==
    /\ last.op = "entry"
    /\ last.at = "insert"
    /\ Insert(last.events, dbok)
    /\ LET res == InsertResult(tableExists, store, last.events, dbok)
       IN last' = IF ~res.ret /\ ChecksInsert(last.entry)
                  THEN [last EXCEPT !.at = "returned", !.result = "failure",
                                    !.steps = Append(@, "insert")]
                  ELSE [last EXCEPT !.rows = res.rows, !.at = AfterInsert(last.entry),
                                    !.steps = Append(@, "insert"),
                                    !.result = IF AfterInsert(last.entry) = "returned"
                                               THEN "success" ELSE @]

\* the sync loop starts: it reads the unsynced events
EntrySync(dbok) ==
    /\ last.op = "entry"
    /\ last.at = "sync"
    /\ pc[Runner(last.entry)] = "idle"
    /\ StartSync(Runner(last.entry), dbok)

\* what the entry point returns when its sync loop has ended: run_full_sync
\* goes on whatever _sync_to_calendar answered, run_calendar_only returns that
\* answer, trigger_sync returns "success": len(errors) == 0
SyncedResult(e, r) ==
    CASE e = "run_full_sync" -> "none"
      [] e = "run_calendar_only" -> IF sync_success[r] THEN "success" ELSE "failure"
      [] OTHER -> IF TriggerSyncResult.success THEN "success" ELSE "failure"

\* the sync loop has ended
EntrySynced ==
    LET r == Runner(last.entry)
    IN /\ last.op = "entry"
       /\ last.at = "sync"
       /\ pc[r] = "done"
       /\ Forget(r)
       /\ last' = [last EXCEPT !.synced = TRUE, !.total = Len(batch[r]),
                               !.sync_ok = ~ReportsFailure(r),
                               !.steps = Append(@, "sync"),
                               !.at = IF last.entry = "run_full_sync"
                                      THEN "summary" ELSE "returned",
                               !.result = SyncedResult(last.entry, r)]
       /\ UNCHANGED <<tableExists, store, connVars, created, unrecorded, runs>>

\* self._print_summary() reads the statistics; the run returns True
EntrySummary(dbok) ==
    /\ last.op = "entry"
    /\ last.at = "summary"
    /\ last' = [last EXCEPT !.stats = StatisticsResult(tableExists, store, dbok),
                            !.at = "returned", !.result = "success"]
    /\ UNCHANGED <<tableExists, store, syncVars, connVars>>

NextEntry ==
    \/ \E e \in EntryPoints : Begin(e)
    \/ \E dbok \in BOOLEAN : EntryEnsure(dbok)
    \/ \E scraped \in BOOLEAN, events \in Scrapes : EntryScrape(scraped, events)
    \/ \E dbok \in BOOLEAN : EntryInsert(dbok)
    \/ \E dbok \in BOOLEAN : EntrySync(dbok)
    \/ \E r \in Runners : TestConnection(r)
    \/ \E r \in Runners, ok \in BOOLEAN : CreateEvent(r, ok)
    \/ \E r \in Runners, dbok \in BOOLEAN : MarkEvent(r, dbok)
    \/ EntrySynced
    \/ \E dbok \in BOOLEAN : EntrySummary(dbok)

SpecEntry == Init /\ [][NextEntry]_vars

\* the calendar sync of the run was started
SyncAttempted == last.at = "sync" \/ last.synced

\* C28 (SpecEntry): in a run whose ensure_events_table_exists call returned
\* False no row is inserted and no calendar sync is started, and the run
\* returns a failure.
C28_EnsureFailureAborts ==
    (last.op = "entry" /\ last.ensured = "False") =>
        /\ last.rows = 0
        /\ ~SyncAttempted
        /\ last.at = "returned" => last.result = "failure"

\* the rows of s that have an external identifier
WithExternalId(s) == SumCopies({r \in BagToSet(s) : r.gcal_event_id # NULL}, s)

\* C30 (SpecStore): get_event_statistics changes no row and nothing of the
\* schema; when it can read the table its result has
\* synced_events + unsynced_events = total_events, total_events the number of
\* rows and synced_events the number of rows that have an external identifier;
\* when it cannot, it returns the empty dict.
C30_StatisticsReadOnly ==
    [][\A dbok \in BOOLEAN :
          GetStatistics(dbok) =>
              /\ store' = store
              /\ tableExists' = tableExists
              /\ IF dbok /\ tableExists
                 THEN /\ last'.ret.synced_events + last'.ret.unsynced_events
                            = last'.ret.total_events
                      /\ last'.ret.total_events = BagCardinality(store)
                      /\ last'.ret.synced_events = WithExternalId(store)
                 ELSE last'.ret = EmptyDict]_vars

\* statistics were read from a table holding a synced and an unsynced row
C30_Witness ==
    /\ last.op = "stats"
    /\ last.ret # EmptyDict
    /\ last.ret.synced_events > 0
    /\ last.ret.unsynced_events > 0
    /\ last.ret.total_events = BagCardinality(store)

\* C29 (SpecEntry): no step of an entry point (ensure_events_table_exists,
\* insert_events_from_dataframe, get_unsynced_events, mark_event_as_synced,
\* get_event_statistics, the sync loop) removes a row: every natural key
\* stored before the step is stored after it, the number of rows does not
\* decrease and an existing table stays.
C29_NeverDeleted ==
    [][/\ StoredKeys(store) \subseteq StoredKeys(store')
       /\ BagCardinality(store) <= BagCardinality(store')
       /\ tableExists => tableExists']_vars

\* a full run inserted a row, marked a stored row synced and read the statistics
C29_Witness ==
    /\ last.op = "entry"
    /\ last.entry = "run_full_sync"
    /\ last.at = "returned"
    /\ last.synced
    /\ last.rows > 0
    /\ last.stats # EmptyDict
    /\ last.stats.synced_events > 0
    /\ last.stats.total_events > 1

(***************************************************************************)
(* SpecCal: CalendarService.create_event called directly.  service is      *)
(* whether _authenticate built self.service; api is what the insert        *)
(* request does.                                                           *)
(***************************************************************************)
MaxCalls == 2

\* events().insert(...).execute(): the event is created, the API answers with
\* an HttpError, or anything else goes wrong (a timeout, a bad event_data)
ApiOutcomes == {"created", "HttpError", "Exception"}

\* variant: only HttpError is caught
CreateEventResultHttpOnly(service, api, id) ==
    IF ~service THEN [ret |-> NULL, requests |-> 0, raised |-> FALSE]
    ELSE IF api = "created" THEN [ret |-> id, requests |-> 1, raised |-> FALSE]
    ELSE [ret |-> NULL, requests |-> 1, raised |-> api # "HttpError"]

\* create_event: the value returned, the requests made to the API and whether
\* an exception left the method; id is created_event.get('id')
CreateEventResult(service, api, id) ==
    IF ~service THEN [ret |-> NULL, requests |-> 0, raised |-> FALSE]
    ELSE IF api = "created" THEN [ret |-> id, requests |-> 1, raised |-> FALSE]
    ELSE [ret |-> NULL, requests |-> 1, raised |-> FALSE]

\* calendar_service.create_event(event_data)
CreateEventCall(service, api, e) ==
    LET k == Key(e)
        res == CreateEventResult(service, api, NewId(k, created[k] + 1))
    IN /\ created[k] < MaxCalls
       /\ created' = IF service /\ api = "created"
                     THEN [created EXCEPT ![k] = @ + 1] ELSE created
       /\ last' = [op |-> "create_event", service |-> service, api |-> api,
                   key |-> k, before |-> created[k], ret |-> res.ret,
                   requests |-> res.requests, raised |-> res.raised]
       /\ UNCHANGED <<tableExists, store, connVars, unrecorded, runs, pc, batch,
                      outcome, gcal, synced_count, sync_success>>

NextCal ==
    \E service \in BOOLEAN, api \in ApiOutcomes, e \in EventPool :
        CreateEventCall(service, api, e)

SpecCal == Init /\ [][NextCal]_vars

\* C31 (SpecCal): create_event never raises; without an authenticated service
\* it returns None and makes no request; with one it returns the identifier
\* of the event it created, or None when the request failed with any error.
C31_FailureByValue ==
    last.op = "create_event" =>
        /\ ~last.raised
        /\ ~last.service => (last.ret = NULL /\ last.requests = 0
                             /\ created[last.key] = last.before)
        /\ (last.service /\ last.api = "created") =>
              /\ last.ret = NewId(last.key, created[last.key])
              /\ last.ret # NULL
              /\ created[last.key] = last.before + 1
        /\ (last.service /\ last.api # "created") =>
              (last.ret = NULL /\ created[last.key] = last.before)

\* an authenticated service got an error other than HttpError from the API
\* after it had created an event
C31_Witness ==
    /\ last.op = "create_event"
    /\ last.service
    /\ last.api = "Exception"
    /\ last.ret = NULL
    /\ last.before > 0

\* the events of its batch a run has passed to create_event so far
Attempted(r) ==
    {i \in DOMAIN batch[r] : i <= Len(outcome[r]) + (IF pc[r] = "mark" THEN 1 ELSE 0)}

\* C32 (SpecSeq): a run passes an event to create_event only if it has not
\* passed an event with that natural key to it before, and after the call,
\* whether it returned an identifier or None, that event counts as attempted
\* and the loop never returns to it; the attempts of a run are forgotten only
\* when the run has returned and another run starts.
C32_NoInRunRetry ==
    [][\A r \in Runners :
          /\ \A ok \in BOOLEAN : CreateEvent(r, ok) =>
                LET i == Len(outcome[r]) + 1
                IN /\ i \notin Attempted(r)
                   /\ \A j \in Attempted(r) : Key(batch[r][j]) # Key(batch[r][i])
                   /\ Attempted(r)' = Attempted(r) \cup {i}
          /\ (pc[r] # "idle" /\ pc'[r] # "idle" /\ batch'[r] = batch[r]) =>
                Attempted(r) \subseteq Attempted(r)']_vars

\* a run went on to its second event after create_event had failed for the first
C32_Witness ==
    \E r \in Runners :
        /\ Len(batch[r]) = 2
        /\ outcome[r] = <<"create_failed">>
        /\ pc[r] = "mark"
        /\ Attempted(r) = {1, 2}

(***************************************************************************)
(* SpecReingest: the direct calls of SpecStore, where a scrape may also    *)
(* deliver an event again with another country and level.                  *)
(***************************************************************************)
\* a later scrape of the same event: same event_datetime and summary
Rescraped(e) == [e EXCEPT !.country = "EU", !.level = (e.level % 3) + 1]

\* the stored events and the high-importance one scraped again
RescrapePool ==
    StorePool \cup {Rescraped(e) : e \in {x \in StorePool : x.level >= HIGH_IMPORTANCE_LEVEL}}

NextReingest ==
    \/ \E dbok \in BOOLEAN : EnsureSchema(dbok)
    \/ \E events \in SeqsUpTo(RescrapePool, MaxBatch), dbok \in BOOLEAN :
          InsertEvents(events, dbok)
    \/ \E e \in StorePool, id \in CallerIds, dbok \in BOOLEAN :
          MarkSynced(Key(e), id, dbok)

SpecReingest == Init /\ [][NextReingest]_vars

\* C33 (SpecReingest): insert_events_from_dataframe leaves every row that was
\* stored before the call exactly as it was, whatever the batch holds for its
\* natural key: gcal_event_id, is_synced, level and country keep their
\* values, and a synced row stays synced.
C33_ReingestKeepsRows ==
    [][last'.op = "insert" =>
          /\ \A r \in BagToSet(store) : CopiesIn(r, store') = CopiesIn(r, store)
          /\ \A k \in Keys : IsSynced(k) => IsSynced(k)']_vars

\* a batch brought a synced event again with another level and country; the
\* call succeeded, inserted nothing and the stored row has its old values
C33_Witness ==
    /\ last.op = "insert"
    /\ last.ret
    /\ last.dbok
    /\ last.rows = 0
    /\ \E i \in DOMAIN last.events : \E r \in Rows :
          /\ Key(r) = Key(last.events[i])
          /\ r.gcal_event_id # NULL
          /\ r.is_synced
          /\ r.level # last.events[i].level
          /\ r.country # last.events[i].country

\* C34 (SpecStore): in every state of the table that ensure, insert, select,
\* mark and statistics calls reach, a row has is_synced = TRUE exactly when
\* its gcal_event_id is not NULL, so the unsynced selection at level 0 takes
\* exactly the rows the statistics do not count as synced.
C34_MarkersAgree ==
    /\ \A r \in Rows : (r.is_synced = TRUE) <=> (r.gcal_event_id # NULL)
    /\ \A r \in Rows : Selects(r, 0) <=> ~(r.is_synced = TRUE)
    /\ SyncedEvents(store) + Cardinality({r \in Rows : Selects(r, 0)})
          = BagCardinality(store)

\* a mark call has just set both markers of one row while another row has neither
C34_Witness ==
    /\ last.op = "mark"
    /\ last.ret
    /\ \E r \in Rows : Key(r) = last.key /\ r.is_synced /\ r.gcal_event_id = last.id
    /\ \E r \in Rows : ~r.is_synced /\ r.gcal_event_id = NULL

(***************************************************************************)
(* SpecAtomic: insert_events_from_dataframe with its transaction.  The     *)
(* records are executed one by one on the connection; fail_at is the       *)
(* record whose execution raises (0: none does).                           *)
(***************************************************************************)
\* variant: the connection is in autocommit mode
ScopeExitAutocommit(committed, pending, exc) == pending

\* DatabaseConnection.__exit__: conn.rollback() when the body raised,
\* conn.commit() otherwise; the table as other connections see it afterwards
ScopeExit(committed, pending, exc) == IF exc THEN committed ELSE pending

\* the record at which cursor.executemany raises: the one chosen, or the first
\* one when the table does not exist
RaisesAt(tbl, fail_at) == IF tbl THEN fail_at ELSE 1

\* insert_events_from_dataframe: the rows the transaction has written when the
\* body ends, the table after the scope's exit and the value returned
InsertTransactionResult(tbl, s, events, fail_at) ==
    IF events = <<>>
    THEN [store |-> s, ret |-> TRUE, written |-> 0, exit |-> "none"]
    ELSE LET at == RaisesAt(tbl, fail_at)
             exc == at > 0
             executed == IF exc THEN SubSeq(events, 1, at - 1) ELSE events
             pending == ExecuteMany(s, executed)
         IN [store |-> ScopeExit(s, pending, exc),
             ret |-> ~exc,
             written |-> BagCardinality(pending) - BagCardinality(s),
             exit |-> IF exc THEN "rollback" ELSE "commit"]

InsertTransaction(events, fail_at) ==
    LET res == InsertTransactionResult(tableExists, store, events, fail_at)
    IN /\ fail_at <= Len(events)
       /\ store' = res.store
       /\ last' = [op |-> "insert", events |-> events,
                   at |-> IF events = <<>> THEN 0 ELSE RaisesAt(tableExists, fail_at),
                   ret |-> res.ret, written |-> res.written, exit |-> res.exit]
       /\ UNCHANGED <<tableExists, syncVars, connVars>>

NextAtomic ==
    \/ \E dbok \in BOOLEAN : EnsureSchema(dbok)
    \/ \E events \in Batches, fail_at \in 0..MaxBatch : InsertTransaction(events, fail_at)

SpecAtomic == Init /\ [][NextAtomic]_vars

\* C35 (SpecAtomic): when a record of the batch raises while
\* insert_events_from_dataframe executes it, the scope rolls back, the table
\* is what it was before the call, whatever the records before it had
\* written, and the call returns False.
C35_BatchAllOrNothing ==
    [][(last'.op = "insert" /\ last'.at > 0) =>
          /\ store' = store
          /\ last'.ret = FALSE
          /\ last'.exit = "rollback"]_vars

\* the second record raised after the first had written a new row, which is
\* not in the table
C35_Witness ==
    /\ last.op = "insert"
    /\ last.at = 2
    /\ last.written = 1
    /\ last.ret = FALSE
    /\ \A r \in Rows : Key(r) # Key(last.events[1])
    /\ store # EmptyBag

\* the rows the sync loop of entry point e would read
Readable(e) == {r \in Rows : Selects(r, MinLevel(Runner(e)))}

\* C36 (SpecEntry): when get_unsynced_events cannot read the table, the sync
\* loop gets an empty frame and ends at once with the locals of a run that
\* found nothing; such a run creates no calendar event, changes no row and
\* returns success, as a run whose read found no unsynced event does.
C36_FailedReadLooksEmpty ==
    [][LET r == Runner(last.entry)
       IN /\ EntrySync(FALSE) =>
                /\ batch'[r] = <<>>
                /\ pc'[r] = "done"
                /\ synced_count'[r] = 0
                /\ sync_success'[r] = TRUE
                /\ store' = store
                /\ created' = created
          /\ (EntrySynced /\ batch[r] = <<>>) =>
                /\ store' = store
                /\ created' = created
                /\ last'.sync_ok
                /\ last'.total = 0
                /\ SyncOnly(last.entry) => last'.result = "success"
                /\ last.entry = "run_full_sync" => last'.at = "summary"]_vars

\* the /sync handler returned success with nothing read while the table held
\* an unsynced event of its level: its read had failed
C36_Witness ==
    /\ last.op = "entry"
    /\ last.entry = "trigger_sync"
    /\ last.at = "returned"
    /\ last.total = 0
    /\ last.result = "success"
    /\ tableExists
    /\ Readable("trigger_sync") # {}
    /\ \A k \in Keys : created[k] = 0

\* C37 (SpecConn): whatever max_retries is and however the connection attempts
\* fail, the body of the with statement runs only with an open connection:
\* __enter__ either returns the connection or raises.
C37_NeverNullConnection ==
    /\ cpc = "body" => conn = "open"
    /\ (cpc \in {"body", "exit", "left"}) =>
          (Len(log) >= 1 /\ log[Len(log)] = "connected")

\* C38 (SpecConn): a connection attempt that raises an error other than
\* OperationalError is the last one: the error leaves __enter__ at once, the
\* only sleeps are those after the OperationalErrors before it, and no
\* connection is open.
C38_OnlyTransientRetried ==
    \A i \in DOMAIN log :
        log[i] = "Error" =>
            /\ i = Len(log)
            /\ cpc = "raised"
            /\ raised = <<"Error", i>>
            /\ attempt = i
            /\ slept = Waits(i - 1)
            /\ conn = "None"
            /\ closes = 0

\* the second attempt raised another error after one OperationalError and one
\* sleep, with attempts to spare
C38_Witness ==
    /\ max_retries = 3
    /\ log = <<"OperationalError", "Error">>
    /\ slept = <<wait_seconds>>
    /\ cpc = "raised"
    /\ raised = <<"Error", 2>>
    /\ conn = "None"

FullSync == last.op = "entry" /\ last.entry = "run_full_sync"

\* the events of the run's processed frame are stored
FrameStored == \A i \in DOMAIN last.events : Key(last.events[i]) \in StoredKeys(store)

\* C39 (SpecEntry): in run_full_sync the calendar sync starts only after
\* ensure_events_table_exists, the scrape with its processing and the insert
\* have succeeded, in that order; create_event is called only inside that
\* step; a run whose insert failed returns False without having started the
\* sync; a run whose sync reported failures still returns True, and the rows
\* of its frame are stored.
C39_FullSyncOrder ==
    FullSync =>
        /\ SyncAttempted =>
              /\ Len(last.steps) >= 3
              /\ SubSeq(last.steps, 1, 3) = <<"ensure", "scrape", "insert">>
              /\ last.ensured = "True"
              /\ last.events # <<>>
              /\ FrameStored
        /\ pc["main"] # "idle" => last.at = "sync"
        /\ pc["api"] = "idle"
        /\ (last.at = "returned" /\ ~last.synced) =>
              (last.steps = <<"ensure", "scrape", "insert">> => last.result = "failure")
        /\ (last.at = "returned" /\ last.synced) =>
              /\ last.steps = <<"ensure", "scrape", "insert", "sync">>
              /\ last.result = "success"
              /\ FrameStored

\* a full run inserted a new row, its calendar sync reported a failure and the
\* run returned True
C39_Witness ==
    /\ FullSync
    /\ last.at = "returned"
    /\ last.synced
    /\ ~last.sync_ok
    /\ last.total > 0
    /\ last.rows > 0
    /\ last.result = "success"
    /\ FrameStored

====
